---- MODULE Spec2Model ----
(***************************************************************************)
(* A model of name_tracker_app.py: the filename date parser, the line name *)
(* extractor, the name normalizer and the main block that folds uploaded   *)
(* files into the participation record and builds the report table.        *)
(*                                                                         *)
(* A string is a sequence of characters.  A character is written as a      *)
(* short TLA+ string: ASCII characters as themselves ("3", ")", " ", "/"), *)
(* the tab as "TAB", and a Hangul syllable by its romanisation ("jo" is    *)
(* U+C870, "wol" is U+C6D4, "il" is U+C77C, "hong" "gil" "dong" ...).      *)
(***************************************************************************)
EXTENDS Integers, Sequences, FiniteSets, TLC

VARIABLES uploaded_files, idx, pc, date, raw_names, participation, all_dates,
          errors, warnings, df, input, output, call

vars == <<uploaded_files, idx, pc, date, raw_names, participation, all_dates,
          errors, warnings, df, input, output, call>>

(***************************************************************************)
(* Characters and the character classes of the regular expressions.        *)
(***************************************************************************)
Digit == {"0", "1", "2", "3", "4", "5", "6", "7", "8", "9"}

Hangul == {"jo", "wol", "il", "hong", "gil", "dong", "kim", "min", "su",
           "ha", "go", "raeb", "seu", "eu", "rat", "cha", "in", "pi", "re",
           "i", "syeon", "sa", "bu", "jak"}

Latin == {"a", "b", "c", "d", "x", "B", "G", "O"}

Space == {" ", "TAB"}

DateSep == {".", "-"}

\* [\s/] : what the normalizer splits on and the extractor allows inside a name
NameSep == Space \cup {"/"}

\* \w : letters of any script, digits and the underscore
WordChar == Digit \cup Latin \cup Hangul \cup {"_"}

\* [\w<Hangul>/_]
NameChar == WordChar \cup {"/"}

\* [<Hangul>a-zA-Z0-9_]
IdChar == Hangul \cup Latin \cup Digit \cup {"_"}

\* the code point of a character: sorted() compares strings by code point
Code ==
  ("TAB" :> 9) @@ (" " :> 32) @@ ("!" :> 33) @@ (")" :> 41) @@ ("-" :> 45) @@
  ("." :> 46) @@ ("/" :> 47) @@
  ("0" :> 48) @@ ("1" :> 49) @@ ("2" :> 50) @@ ("3" :> 51) @@ ("4" :> 52) @@
  ("5" :> 53) @@ ("6" :> 54) @@ ("7" :> 55) @@ ("8" :> 56) @@ ("9" :> 57) @@
  ("B" :> 66) @@ ("G" :> 71) @@ ("O" :> 79) @@ ("_" :> 95) @@
  ("a" :> 97) @@ ("b" :> 98) @@ ("c" :> 99) @@ ("d" :> 100) @@ ("x" :> 120) @@
  ("go" :> 44256) @@ ("gil" :> 44600) @@ ("kim" :> 44608) @@
  ("dong" :> 46041) @@ ("rat" :> 46991) @@ ("raeb" :> 47017) @@
  ("re" :> 47112) @@ ("min" :> 48124) @@ ("bu" :> 48512) @@
  ("sa" :> 49324) @@ ("syeon" :> 49496) @@ ("su" :> 49688) @@
  ("seu" :> 49828) @@ ("wol" :> 50900) @@ ("eu" :> 51004) @@
  ("i" :> 51060) @@ ("in" :> 51064) @@ ("il" :> 51068) @@
  ("jak" :> 51089) @@ ("jo" :> 51312) @@ ("cha" :> 52264) @@
  ("pi" :> 54588) @@ ("ha" :> 54616) @@ ("hong" :> 54861)

DigitVal ==
  ("0" :> 0) @@ ("1" :> 1) @@ ("2" :> 2) @@ ("3" :> 3) @@ ("4" :> 4) @@
  ("5" :> 5) @@ ("6" :> 6) @@ ("7" :> 7) @@ ("8" :> 8) @@ ("9" :> 9)

\* no date, no match: Python's None
None == [none |-> TRUE]

\* s[i] when i is a position of s, else a value that is no character
At(s, i) == IF i \in 1..Len(s) THEN s[i] ELSE "EOS"

\* the last position of the longest run of class C that starts at i
\* (i - 1 when s[i] is not in C): a greedy C* from position i
RunEnd(s, i, C) ==
  CHOOSE e \in (i - 1)..Len(s) :
    /\ \A k \in i..e : s[k] \in C
    /\ At(s, e + 1) \notin C

AllIn(s, a, b, C) == \A k \in a..b : At(s, k) \in C

(***************************************************************************)
(* extract_date_from_filename                                              *)
(***************************************************************************)
\* \d{4}[.-]?\d{2}[.-]?\d{2} tried at position i: the position of its last
\* character, or 0.  Each optional separator is taken exactly when present:
\* leaving it out would make the following \d fail on it.
FullDateEnd(s, i) ==
  IF ~AllIn(s, i, i + 3, Digit) THEN 0
  ELSE LET j == IF At(s, i + 4) \in DateSep THEN i + 5 ELSE i + 4
       IN IF ~AllIn(s, j, j + 1, Digit) THEN 0
          ELSE LET k == IF At(s, j + 2) \in DateSep THEN j + 3 ELSE j + 2
               IN IF AllIn(s, k, k + 1, Digit) THEN k + 1 ELSE 0

\* \d{1,2}<wol>\s*\d{1,2}<il> tried at position i, as a record of the
\* positions of the two numbers, or None
MonthDayAt(s, i) ==
  IF At(s, i) \notin Digit THEN None
  ELSE LET m2 == IF At(s, i + 1) \in Digit THEN i + 1 ELSE i
           d1 == RunEnd(s, m2 + 2, Space) + 1
           d2 == IF At(s, d1 + 1) \in Digit THEN d1 + 1 ELSE d1
       IN IF /\ At(s, m2 + 1) = "wol"
             /\ At(s, d1) \in Digit
             /\ At(s, d2 + 1) = "il"
          THEN [m1 |-> i, m2 |-> m2, d1 |-> d1, d2 |-> d2, end |-> d2 + 1]
          ELSE None

\* DateMatchAt with the bare 4-digit alternative written first
DateMatchAt_codeFirst(s, i) ==
  IF AllIn(s, i, i + 3, Digit)
  THEN [start |-> i, end |-> i + 3, alt |-> 3]
  ELSE IF MonthDayAt(s, i) # None
       THEN [start |-> i, end |-> MonthDayAt(s, i).end, alt |-> 2]
       ELSE None

\* the alternation tried at position i, in the order it is written:
\* the format that matches (1, 2, 3) and the last position, or None
DateMatchAt(s, i) ==
  IF FullDateEnd(s, i) # 0 THEN [start |-> i, end |-> FullDateEnd(s, i), alt |-> 1]
  ELSE IF MonthDayAt(s, i) # None
       THEN [start |-> i, end |-> MonthDayAt(s, i).end, alt |-> 2]
       ELSE IF AllIn(s, i, i + 3, Digit)
            THEN [start |-> i, end |-> i + 3, alt |-> 3]
            ELSE None

\* re.search: the first position, from the left, where the pattern matches
RECURSIVE DateSearchFrom(_, _)
DateSearchFrom(s, i) ==
  IF i > Len(s) THEN None
  ELSE IF DateMatchAt(s, i) # None THEN DateMatchAt(s, i)
       ELSE DateSearchFrom(s, i + 1)

DateSearch(filename) == DateSearchFrom(filename, 1)

\* int() of a run of one or two digits
IntOf(s) ==
  IF Len(s) = 1 THEN DigitVal[s[1]] ELSE 10 * DigitVal[s[1]] + DigitVal[s[2]]

\* f"{n:02}" for 0 <= n <= 99
Pad2(n) ==
  LET ch == [v \in 0..9 |-> CHOOSE c \in Digit : DigitVal[c] = v]
  IN <<ch[n \div 10], ch[n % 10]>>

IsLeap(y) == y % 4 = 0 /\ (y % 100 # 0 \/ y % 400 = 0)

DaysInMonth(y, m) ==
  IF m = 2 THEN (IF IsLeap(y) THEN 29 ELSE 28)
  ELSE IF m \in {4, 6, 9, 11} THEN 30 ELSE 31

\* datetime.strptime(t, "%Y-%m-%d").date() on a text whose month and day
\* fields are two characters wide (every text the function builds is):
\* a date, or None for the ValueError the bare except turns into None
Strptime(t) ==
  IF /\ Len(t) = 10
     /\ AllIn(t, 1, 4, Digit) /\ t[5] = "-"
     /\ AllIn(t, 6, 7, Digit) /\ t[8] = "-"
     /\ AllIn(t, 9, 10, Digit)
  THEN LET y == 1000 * DigitVal[t[1]] + 100 * DigitVal[t[2]]
                + 10 * DigitVal[t[3]] + DigitVal[t[4]]
           m == IntOf(SubSeq(t, 6, 7))
           d == IntOf(SubSeq(t, 9, 10))
       IN IF y >= 1 /\ m \in 1..12 /\ d \in 1..DaysInMonth(y, m)
          THEN [year |-> y, month |-> m, day |-> d]
          ELSE None
  ELSE None

\* raw_date.replace('.', '-')
ReplaceDots(t) == [k \in 1..Len(t) |-> IF t[k] = "." THEN "-" ELSE t[k]]

AssumedYear == <<"2", "0", "2", "4">>

\* the try block: the text handed to strptime for each of the three branches
DateText(s, m) ==
  LET raw == SubSeq(s, m.start, m.end)
  IN IF \E k \in 1..Len(raw) : raw[k] = "wol"
     THEN LET g == MonthDayAt(s, m.start)
          IN AssumedYear \o <<"-">> \o Pad2(IntOf(SubSeq(s, g.m1, g.m2)))
               \o <<"-">> \o Pad2(IntOf(SubSeq(s, g.d1, g.d2)))
     ELSE IF Len(raw) = 4 /\ AllIn(raw, 1, 4, Digit)
          THEN AssumedYear \o <<"-">> \o SubSeq(raw, 1, 2) \o <<"-">> \o SubSeq(raw, 3, 4)
          ELSE ReplaceDots(raw)

extract_date_from_filename(filename) ==
  LET m == DateSearch(filename)
  IN IF m = None THEN None ELSE Strptime(DateText(filename, m))

(***************************************************************************)
(* normalize_name_to_core                                                  *)
(***************************************************************************)
\* str.strip(): leading and trailing whitespace removed
RECURSIVE Strip(_)
Strip(s) ==
  IF s = <<>> THEN s
  ELSE IF s[1] \in Space THEN Strip(Tail(s))
       ELSE IF s[Len(s)] \in Space THEN Strip(SubSeq(s, 1, Len(s) - 1))
            ELSE s

\* re.split(r"[\s/]", s): the texts between separators, empty ones included
RECURSIVE Split(_)
Split(s) ==
  IF \A k \in 1..Len(s) : s[k] \notin NameSep THEN <<s>>
  ELSE LET k == CHOOSE j \in 1..Len(s) :
                  s[j] \in NameSep /\ \A h \in 1..(j - 1) : s[h] \notin NameSep
       IN <<SubSeq(s, 1, k - 1)>> \o Split(SubSeq(s, k + 1, Len(s)))

blacklist ==
  { <<"ha", "go", "raeb", "seu">>,
    <<"sa", "bu", "jak", "sa", "bu", "jak">>,
    <<"eu", "rat", "cha">>,
    <<"in", "seu", "pi", "re", "i", "syeon">>,
    <<"B", "G", "O">> }

\* re.fullmatch(r"\d+<jo>", p)
IsGroupIndex(p) ==
  Len(p) >= 2 /\ AllIn(p, 1, Len(p) - 1, Digit) /\ p[Len(p)] = "jo"

\* re.fullmatch(r"[<Hangul>]{2,3}", p)
IsKoreanName(p) == Len(p) \in 2..3 /\ AllIn(p, 1, Len(p), Hangul)

\* re.fullmatch(r"[<Hangul>a-zA-Z0-9_]{4,}", p)
IsIdStyle(p) == Len(p) >= 4 /\ AllIn(p, 1, Len(p), IdChar)

\* max(korean_parts, key=len) that keeps the last of the longest
RECURSIVE MaxByLenLastFrom(_, _, _)
MaxByLenLastFrom(ps, i, best) ==
  IF i > Len(ps) THEN best
  ELSE MaxByLenLastFrom(ps, i + 1, IF Len(ps[i]) >= Len(best) THEN ps[i] ELSE best)

MaxByLen_keepLast(ps) == MaxByLenLastFrom(ps, 2, ps[1])

\* max(korean_parts, key=len): a later item replaces the best one so far
\* only when it is strictly longer
RECURSIVE MaxByLenFrom(_, _, _)
MaxByLenFrom(ps, i, best) ==
  IF i > Len(ps) THEN best
  ELSE MaxByLenFrom(ps, i + 1, IF Len(ps[i]) > Len(best) THEN ps[i] ELSE best)

MaxByLen(ps) == MaxByLenFrom(ps, 2, ps[1])

\* a < b for strings: by code point at the first difference, a prefix first
RECURSIVE StrLess(_, _)
StrLess(a, b) ==
  IF b = <<>> THEN FALSE
  ELSE IF a = <<>> THEN TRUE
       ELSE IF a[1] # b[1] THEN Code[a[1]] < Code[b[1]]
            ELSE StrLess(Tail(a), Tail(b))

\* one item put in its place in a sorted list, after the items equal to it
RECURSIVE Insert(_, _)
Insert(sorted, p) ==
  IF sorted = <<>> THEN <<p>>
  ELSE IF StrLess(p, sorted[1]) THEN <<p>> \o sorted
       ELSE <<sorted[1]>> \o Insert(Tail(sorted), p)

\* sorted(parts)
RECURSIVE Sorted(_)
Sorted(ps) ==
  IF ps = <<>> THEN <<>>
  ELSE Insert(Sorted(SubSeq(ps, 1, Len(ps) - 1)), ps[Len(ps)])

\* " ".join(ps)
RECURSIVE Join(_)
Join(ps) ==
  IF ps = <<>> THEN <<>>
  ELSE IF Len(ps) = 1 THEN ps[1]
       ELSE ps[1] \o <<" ">> \o Join(Tail(ps))

\* the tokens left after the two filters
KeptParts(name) ==
  LET split == SelectSeq(Split(Strip(name)), LAMBDA p : p # <<>>)
  IN SelectSeq(split, LAMBDA p : ~IsGroupIndex(p) /\ p \notin blacklist)

normalize_name_to_core(name) ==
  LET parts == KeptParts(name)
      korean_parts == SelectSeq(parts, IsKoreanName)
      id_parts == SelectSeq(parts, IsIdStyle)
  IN IF korean_parts # <<>> THEN MaxByLen(korean_parts)
     ELSE IF id_parts # <<>> THEN id_parts[Len(id_parts)]
          ELSE Join(Sorted(parts))

(***************************************************************************)
(* pattern and extract_names_from_text                                     *)
(***************************************************************************)
\* \d+\) tried at position i: the position after the ")", or 0.  The digits
\* are the whole run: a shorter \d+ would have to meet ")" on a digit.
MarkerEnd(s, i) ==
  LET e == RunEnd(s, i, Digit)
  IN IF e >= i /\ At(s, e + 1) = ")" THEN e + 2 ELSE 0

\* re.search(r"\d+\)", line)
HasMarker(s) == \E i \in 1..Len(s) : MarkerEnd(s, i) # 0

\* the positions right after a group label that starts at p, in the order
\* the matcher tries them: \d+<jo> takes the whole run of digits;
\* [<Hangul>]+<jo> takes the longest run first and gives characters back, so
\* a later <jo> of the run is tried before an earlier one
RECURSIVE LabelEndsDown(_, _, _)
LabelEndsDown(s, p, j) ==
  IF j <= p THEN <<>>
  ELSE (IF s[j] = "jo" THEN <<j + 1>> ELSE <<>>) \o LabelEndsDown(s, p, j - 1)

LabelEnds(s, p) ==
  IF At(s, p) \in Digit
  THEN LET e == RunEnd(s, p, Digit)
       IN IF At(s, e + 1) = "jo" THEN <<e + 2>> ELSE <<>>
  ELSE IF At(s, p) \in Hangul
       THEN LabelEndsDown(s, p, RunEnd(s, p, Hangul))
       ELSE <<>>

\* [\s/]* from position e, then the first character of the name: the
\* separators are taken greedily and given back one by one until a name
\* character follows (a slash given back is itself a name character).
\* The position where the name starts, or 0.
RECURSIVE NameStartDown(_, _, _)
NameStartDown(s, e, q) ==
  IF q < e THEN 0
  ELSE IF At(s, q) \in NameChar THEN q
       ELSE NameStartDown(s, e, q - 1)

NameStartAfterLabel(s, e) == NameStartDown(s, e, RunEnd(s, e, NameSep) + 1)

\* the optional group label made lazy, (?:...)??: skipping it is tried first
NameStartFrom_lazy(s, p, ends, k) ==
  IF At(s, p) \in NameChar THEN p
  ELSE IF k <= Len(ends) THEN NameStartAfterLabel(s, ends[k]) ELSE 0

\* the optional group label: the label is tried first, each of its ends in
\* turn, and skipping it comes last.  The position where the name starts,
\* or 0 when the pattern does not match with the marker that ends before p.
RECURSIVE NameStartFrom(_, _, _, _)
NameStartFrom(s, p, ends, k) ==
  IF k > Len(ends)
  THEN (IF At(s, p) \in NameChar THEN p ELSE 0)
  ELSE IF NameStartAfterLabel(s, ends[k]) # 0
       THEN NameStartAfterLabel(s, ends[k])
       ELSE NameStartFrom(s, p, ends, k + 1)

\* group 1 never gives anything back, nothing follows it:
\* [\w<Hangul>/_]+ and then, as often as possible, one whitespace character
\* or slash followed by [\w<Hangul>/_]+
RECURSIVE NameEnd(_, _)
NameEnd(s, c) ==
  LET e == RunEnd(s, c, NameChar)
  IN IF At(s, e + 1) \in NameSep /\ At(s, e + 2) \in NameChar
     THEN NameEnd(s, e + 2)
     ELSE e

\* the pattern tried at position i: the span of group 1, or None
PatternMatchAt(s, i) ==
  IF MarkerEnd(s, i) = 0 THEN None
  ELSE LET p == RunEnd(s, MarkerEnd(s, i), Space) + 1
           c == NameStartFrom(s, p, LabelEnds(s, p), 1)
       IN IF c = 0 THEN None ELSE [start |-> c, end |-> NameEnd(s, c)]

\* pattern.search(line): the first position, from the left, that matches
RECURSIVE PatternSearchFrom(_, _)
PatternSearchFrom(s, i) ==
  IF i > Len(s) THEN None
  ELSE IF PatternMatchAt(s, i) # None THEN PatternMatchAt(s, i)
       ELSE PatternSearchFrom(s, i + 1)

PatternSearch(line) == PatternSearchFrom(line, 1)

\* re.sub(r"\s+", " ", name): each run of whitespace becomes one space
RECURSIVE CollapseSpaces(_)
CollapseSpaces(s) ==
  IF s = <<>> THEN <<>>
  ELSE IF s[1] \in Space
       THEN <<" ">> \o CollapseSpaces(SubSeq(s, RunEnd(s, 1, Space) + 1, Len(s)))
       ELSE <<s[1]>> \o CollapseSpaces(Tail(s))

\* one turn of the loop over the lines: the names and the warnings after it
LineStep(acc, line) ==
  LET original_line == Strip(line)
  IN IF original_line = <<>> \/ ~HasMarker(original_line) THEN acc
     ELSE LET m == PatternSearch(original_line)
          IN IF m # None
             THEN [acc EXCEPT !.names =
                     Append(@, CollapseSpaces(Strip(SubSeq(original_line, m.start, m.end))))]
             ELSE [acc EXCEPT !.warnings = Append(@, original_line)]

\* the names returned and the warnings shown, for a text given as the
\* sequence of its lines (text.split("\n"))
RECURSIVE ExtractFrom(_, _, _)
ExtractFrom(text, k, acc) ==
  IF k > Len(text) THEN acc
  ELSE ExtractFrom(text, k + 1, LineStep(acc, text[k]))

extract_names_from_text(text) ==
  ExtractFrom(text, 1, [names |-> <<>>, warnings |-> <<>>])

(***************************************************************************)
(* The main block: participation, all_dates, the loop over the uploaded    *)
(* files and the report table.                                             *)
(*                                                                         *)
(* participation, a defaultdict(dict), is the sequence of its items in     *)
(* insertion order, each a name with its inner dict from dates to markers. *)
(***************************************************************************)
\* d[k] = v on a dict
DictSet(d, k, v) == [x \in (DOMAIN d) \cup {k} |-> IF x = k THEN v ELSE d[x]]

HasName(p, n) == \E k \in 1..Len(p) : p[k].name = n

IndexOf(p, n) == CHOOSE k \in 1..Len(p) : p[k].name = n

\* participation[normalized] = {date: 'O'}: the inner dict is replaced
Mark_replace(p, normalized, d) ==
  IF HasName(p, normalized)
  THEN [p EXCEPT ![IndexOf(p, normalized)].dates = DictSet(<<>>, d, "O")]
  ELSE Append(p, [name |-> normalized, dates |-> DictSet(<<>>, d, "O")])

\* a new name is put in front of the names already there
Mark_prepend(p, normalized, d) ==
  IF HasName(p, normalized)
  THEN [p EXCEPT ![IndexOf(p, normalized)].dates = DictSet(@, d, "O")]
  ELSE <<[name |-> normalized, dates |-> DictSet(<<>>, d, "O")]>> \o p

\* an empty name is looked up in the defaultdict, which creates its item,
\* but is not marked
Mark_touchEmpty(p, normalized, d) ==
  IF HasName(p, normalized)
  THEN (IF normalized = <<>> THEN p
        ELSE [p EXCEPT ![IndexOf(p, normalized)].dates = DictSet(@, d, "O")])
  ELSE Append(p, [name |-> normalized,
                  dates |-> IF normalized = <<>> THEN <<>> ELSE DictSet(<<>>, d, "O")])

\* participation[normalized][date] = 'O': the defaultdict creates the item
\* of a name not seen before, at the end
Mark(p, normalized, d) ==
  IF HasName(p, normalized)
  THEN [p EXCEPT ![IndexOf(p, normalized)].dates = DictSet(@, d, "O")]
  ELSE Append(p, [name |-> normalized, dates |-> DictSet(<<>>, d, "O")])

\* dates compare as (year, month, day)
DateLess(a, b) ==
  \/ a.year < b.year
  \/ a.year = b.year /\ a.month < b.month
  \/ a.year = b.year /\ a.month = b.month /\ a.day < b.day

\* sorted(all_dates)
RECURSIVE SortedDates(_)
SortedDates(S) ==
  IF S = {} THEN <<>>
  ELSE LET least == CHOOSE d \in S : \A e \in S \ {d} : DateLess(d, e)
       IN <<least>> \o SortedDates(S \ {least})

\* str(d) of a date: YYYY-MM-DD
DateStr(d) ==
  Pad2(d.year \div 100) \o Pad2(d.year % 100) \o <<"-">> \o Pad2(d.month)
    \o <<"-">> \o Pad2(d.day)

\* the two fixed column labels
NameColumn == <<"i", "reum">>

TotalColumn == <<"chong", " ", "hoes", "su">>

\* dates.get(d, 'O')
CellValue_defaultO(dates, d) == IF d \in DOMAIN dates THEN dates[d] ELSE "O"

\* dates.get(d, 'X')
CellValue(dates, d) == IF d \in DOMAIN dates THEN dates[d] ELSE "X"

\* list(dates.values()).count('O')
RowTotal(dates) == Cardinality({d \in DOMAIN dates : dates[d] = "O"})

\* one row dict: the name, a cell for each sorted date under str(d), the total
Row(item, sorted_dates) ==
  [name |-> item.name,
   cells |-> [c \in {DateStr(sorted_dates[k]) : k \in 1..Len(sorted_dates)} |->
                CellValue(item.dates,
                          CHOOSE d \in {sorted_dates[k] : k \in 1..Len(sorted_dates)} :
                            DateStr(d) = c)],
   total |-> RowTotal(item.dates)]

\* df after the column selection: the columns in order, and the rows.  The
\* two loops that add a missing column only act when there is no row, and
\* then give the same columns.
ReportFor(p, sorted_dates) ==
  [columns |-> <<NameColumn>>
                 \o [k \in 1..Len(sorted_dates) |-> DateStr(sorted_dates[k])]
                 \o <<TotalColumn>>,
   rows |-> [k \in 1..Len(p) |-> Row(p[k], sorted_dates)]]

\* the columns are the dates somebody attended
Report_attendedOnly(p, dates) ==
  ReportFor(p, SortedDates({d \in dates : \E k \in 1..Len(p) : d \in DOMAIN p[k].dates}))

Report(p, dates) == ReportFor(p, SortedDates(dates))

\* the uploads: three filenames with a date (09 May twice, 31 December
\* 2023), each with each of three texts, and a filename without one (month
\* 13) with the first text
UploadNames ==
  { <<"0", "5", "0", "9", "x">>,
    <<"5", "wol", " ", "9", "il">>,
    <<"2", "0", "2", "3", ".", "1", "2", ".", "3", "1">> }

UndatedName == <<"1", "3", "4", "0">>

FirstText ==
  << <<"1", ")", " ", "hong", "gil", "dong">>,
     <<"3", ")", " ", "!">>,
     <<"2", ")", " ", "ha", "go", "raeb", "seu", " ", "kim", "min", "su">>,
     <<"4", ")", " ", "1", "jo">> >>

UploadTexts ==
  { FirstText,
    << <<"2", ")", " ", "1", "jo", " ", "kim", "min", "su">>,
       <<"x", "x">>,
       <<" ", "1", ")", "TAB", "hong", "gil", "dong">>,
       <<"3", ")", "1", "jo", "/", "hong", "gil", "dong">> >>,
    << <<"x", "x">>, <<>> >> }

Uploads ==
  [name : UploadNames, content : UploadTexts]
    \cup {[name |-> UndatedName, content |-> FirstText]}

MaxFiles == 3

Init ==
  /\ uploaded_files \in UNION {[1..n -> Uploads] : n \in 0..MaxFiles}
  /\ idx = 1
  /\ pc = "files"
  /\ date = None
  /\ raw_names = <<>>
  /\ participation = <<>>
  /\ all_dates = {}
  /\ errors = <<>>
  /\ warnings = <<>>
  /\ df = None
  /\ input = <<>>
  /\ output = None
  /\ call = "main"

\* "if not date": a date object is never false, None is
AtFile == pc = "files" /\ idx <= Len(uploaded_files)

\* the file is skipped with "break" in place of "continue"
SkipFile_break ==
  /\ AtFile
  /\ extract_date_from_filename(uploaded_files[idx].name) = None
  /\ date' = None
  /\ errors' = Append(errors, uploaded_files[idx].name)
  /\ idx' = Len(uploaded_files) + 1
  /\ UNCHANGED <<uploaded_files, pc, raw_names, participation, all_dates,
                 warnings, df, input, output, call>>

\* a turn of the loop over the files for a file without a date: st.error
\* and continue
SkipFile ==
  /\ AtFile
  /\ extract_date_from_filename(uploaded_files[idx].name) = None
  /\ date' = None
  /\ errors' = Append(errors, uploaded_files[idx].name)
  /\ idx' = idx + 1
  /\ UNCHANGED <<uploaded_files, pc, raw_names, participation, all_dates,
                 warnings, df, input, output, call>>

\* a turn of the loop for a file with a date, up to the loop over its names
ReadFile ==
  /\ AtFile
  /\ extract_date_from_filename(uploaded_files[idx].name) # None
  /\ date' = extract_date_from_filename(uploaded_files[idx].name)
  /\ all_dates' = all_dates \cup {date'}
  /\ LET r == extract_names_from_text(uploaded_files[idx].content)
     IN /\ raw_names' = r.names
        /\ warnings' = warnings \o r.warnings
        /\ IF r.names = <<>>
           THEN idx' = idx + 1 /\ pc' = "files"
           ELSE idx' = idx /\ pc' = "names"
  /\ UNCHANGED <<uploaded_files, participation, errors, df, input, output, call>>

\* a turn of the loop over raw_names
MarkName ==
  /\ pc = "names"
  /\ raw_names # <<>>
  /\ participation' = Mark(participation, normalize_name_to_core(Head(raw_names)), date)
  /\ raw_names' = Tail(raw_names)
  /\ IF Tail(raw_names) = <<>>
     THEN idx' = idx + 1 /\ pc' = "files"
     ELSE idx' = idx /\ pc' = "names"
  /\ UNCHANGED <<uploaded_files, date, all_dates, errors, warnings, df,
                 input, output, call>>

\* after the loop: sorted_dates, rows, df
BuildReport ==
  /\ pc = "files"
  /\ uploaded_files # <<>>
  /\ idx > Len(uploaded_files)
  /\ df' = Report(participation, all_dates)
  /\ pc' = "done"
  /\ UNCHANGED <<uploaded_files, idx, date, raw_names, participation, all_dates,
                 errors, warnings, input, output, call>>

Next == SkipFile \/ ReadFile \/ MarkName \/ BuildReport

Spec == Init /\ [][Next]_vars

(***************************************************************************)
(* The date parser applied to a bounded set of filenames.                  *)
(***************************************************************************)
MaxFilenamePieces == 4

\* 2024, 02, 30, -02, .02, -30, 2<wol>, 9<il>, 30<il>, a space, a letter
FilenamePieces ==
  { <<"2", "0", "2", "4">>, <<"0", "2">>, <<"3", "0">>,
    <<"-", "0", "2">>, <<".", "0", "2">>, <<"-", "3", "0">>,
    <<"2", "wol">>, <<"9", "il">>, <<"3", "0", "il">>, <<" ">>, <<"x">> }

RECURSIVE Concats(_, _)
Concats(P, n) ==
  IF n = 0 THEN {<<>>}
  ELSE LET shorter == Concats(P, n - 1)
       IN shorter \cup {s \o p : s \in shorter, p \in P}

Idle ==
  /\ uploaded_files = <<>> /\ idx = 1 /\ pc = "idle" /\ date = None
  /\ raw_names = <<>> /\ participation = <<>> /\ all_dates = {}
  /\ errors = <<>> /\ warnings = <<>> /\ df = None

MainVars ==
  <<uploaded_files, idx, pc, date, raw_names, participation, all_dates,
    errors, warnings, df>>

InitDate ==
  /\ Idle
  /\ input \in Concats(FilenamePieces, MaxFilenamePieces)
  /\ output = None
  /\ call = "ready"

CallExtractDate ==
  /\ call = "ready"
  /\ output' = extract_date_from_filename(input)
  /\ call' = "extract_date_from_filename"
  /\ UNCHANGED <<input, MainVars>>

NextDate == CallExtractDate

SpecDate == InitDate /\ [][NextDate]_vars

Returned == call = "extract_date_from_filename"

\* the three formats of the pattern, each as a layout of a whole text
IsCompactDate(t) == Len(t) = 8 /\ AllIn(t, 1, 8, Digit)

IsSeparatedDate(t, sep) ==
  /\ Len(t) = 10
  /\ AllIn(t, 1, 4, Digit) /\ t[5] = sep
  /\ AllIn(t, 6, 7, Digit) /\ t[8] = sep
  /\ AllIn(t, 9, 10, Digit)

IsMonthDayPhrase(t) ==
  \E a \in 1..2, b \in 1..2 :
    /\ Len(t) >= a + b + 2
    /\ AllIn(t, 1, a, Digit) /\ t[a + 1] = "wol"
    /\ AllIn(t, a + 2, Len(t) - b - 1, Space)
    /\ AllIn(t, Len(t) - b, Len(t) - 1, Digit) /\ t[Len(t)] = "il"

IsDayCode(t) == Len(t) = 4 /\ AllIn(t, 1, 4, Digit)

\* the number a run of digits spells
RECURSIVE Number(_)
Number(t) ==
  IF t = <<>> THEN 0
  ELSE 10 * Number(SubSeq(t, 1, Len(t) - 1)) + DigitVal[t[Len(t)]]

DigitsOf(t) == SelectSeq(t, LAMBDA c : c \in Digit)

IsCalendarDate(y, m, d) ==
  /\ y >= 1 /\ m \in 1..12
  /\ d >= 1
  /\ d <= (CASE m \in {1, 3, 5, 7, 8, 10, 12} -> 31
             [] m \in {4, 6, 9, 11} -> 30
             [] OTHER -> IF y % 4 = 0 /\ (y % 100 # 0 \/ y % 400 = 0) THEN 29 ELSE 28)

\* the date a full year-month-day text spells, whatever its separators
YmdOf(t) ==
  LET ds == DigitsOf(t)
  IN [year |-> Number(SubSeq(ds, 1, 4)), month |-> Number(SubSeq(ds, 5, 6)),
      day |-> Number(SubSeq(ds, 7, 8))]

\* the month and day a phrase spells, in the assumed year
PhraseOf(t) ==
  LET w == CHOOSE k \in 1..Len(t) : t[k] = "wol"
  IN [year |-> 2024, month |-> Number(SubSeq(t, 1, w - 1)),
      day |-> Number(DigitsOf(SubSeq(t, w + 1, Len(t))))]

DayCodeOf(t) ==
  [year |-> 2024, month |-> Number(SubSeq(t, 1, 2)), day |-> Number(SubSeq(t, 3, 4))]

Valid(dt) == IsCalendarDate(dt.year, dt.month, dt.day)

\* the filename is text without digits, then t, then text without digits
OnlyDateText(s, a, b) ==
  /\ 1 <= a /\ a <= b /\ b <= Len(s)
  /\ \A k \in 1..Len(s) : (k < a \/ k > b) => s[k] \notin Digit

Spans(s) == {ab \in (1..Len(s)) \X (1..Len(s)) : OnlyDateText(s, ab[1], ab[2])}

\* C4, first part, separated layouts: a filename whose only date text is a
\* valid YYYY-MM-DD or YYYY.MM.DD date yields that date, with its own year.
C4_SeparatedDate ==
  Returned =>
    \A ab \in Spans(input) :
      LET t == SubSeq(input, ab[1], ab[2])
      IN (IsSeparatedDate(t, "-") \/ IsSeparatedDate(t, ".")) /\ Valid(YmdOf(t))
           => output = YmdOf(t)

\* C4, first part, compact layout: a filename whose only date text is a
\* valid YYYYMMDD date yields that date, with its own year.
C4_CompactDate ==
  Returned =>
    \A ab \in Spans(input) :
      LET t == SubSeq(input, ab[1], ab[2])
      IN IsCompactDate(t) /\ Valid(YmdOf(t)) => output = YmdOf(t)

\* C4, second part: a month-day phrase or a 4-digit MMDD code yields that
\* month and day in the year 2024.
C4_AssumedYear ==
  Returned =>
    \A ab \in Spans(input) :
      LET t == SubSeq(input, ab[1], ab[2])
      IN /\ IsMonthDayPhrase(t) /\ Valid(PhraseOf(t)) => output = PhraseOf(t)
         /\ IsDayCode(t) /\ Valid(DayCodeOf(t)) => output = DayCodeOf(t)

\* C4, third part: None when nothing matches or the match is no valid date.
C4_Absent ==
  Returned =>
    /\ (\A i \in 1..Len(input) : ~AllIn(input, i, i + 3, Digit)
                                  /\ MonthDayAt(input, i) = None)
         => output = None
    /\ \A ab \in Spans(input) :
         LET t == SubSeq(input, ab[1], ab[2])
         IN /\ (IsSeparatedDate(t, "-") \/ IsSeparatedDate(t, ".") \/ IsCompactDate(t))
                 /\ ~Valid(YmdOf(t)) => output = None
            /\ IsMonthDayPhrase(t) /\ ~Valid(PhraseOf(t)) => output = None
            /\ IsDayCode(t) /\ ~Valid(DayCodeOf(t)) => output = None

\* C4: a filename whose only date text is a valid YYYYMMDD, YYYY-MM-DD or
\* YYYY.MM.DD date yields that date with its own year; a month-day phrase
\* or an MMDD code yields that month and day in 2024; no match or an
\* invalid date yields None.
C4_DateOfFilename ==
  C4_SeparatedDate /\ C4_CompactDate /\ C4_AssumedYear /\ C4_Absent

\* format f (1 full date, 2 month-day phrase, 3 4-digit code) matches at i
FormatAt(s, i, f) ==
  CASE f = 1 -> FullDateEnd(s, i) # 0
    [] f = 2 -> MonthDayAt(s, i) # None
    [] f = 3 -> AllIn(s, i, i + 3, Digit)

FormatsAt(s, i) == {f \in 1..3 : FormatAt(s, i, f)}

FormatsPresent(s) == UNION {FormatsAt(s, i) : i \in 1..Len(s)}

Least(S) == CHOOSE f \in S : \A g \in S : f <= g

\* C5 as stated: the match used is of the highest-priority format that
\* occurs anywhere in the filename, wherever each piece of text stands.
C5_PriorityAnywhere ==
  Returned /\ FormatsPresent(input) # {} =>
    /\ DateSearch(input) # None
    /\ DateSearch(input).alt = Least(FormatsPresent(input))

\* C5 amended: the match used is the one that starts leftmost in the
\* filename; the order full date, phrase, 4-digit code decides only between
\* formats that match at that same position.  A 4-digit run that stands
\* before a month-day phrase is therefore the text that is parsed.
C5_LeftmostThenPriority ==
  Returned =>
    LET m == DateSearch(input)
    IN /\ (m = None) <=> (FormatsPresent(input) = {})
       /\ m # None =>
            /\ \A i \in 1..(m.start - 1) : FormatsAt(input, i) = {}
            /\ m.alt = Least(FormatsAt(input, m.start))
            /\ m.alt = 3 =>
                 LET dc == DayCodeOf(SubSeq(input, m.start, m.start + 3))
                 IN output = IF Valid(dc) THEN dc ELSE None

\* a phrase that spells a valid date stands after a 4-digit run, and the
\* run was the text parsed
C5_Witness ==
  /\ Returned
  /\ DateSearch(input) # None
  /\ DateSearch(input).alt = 3
  /\ \E i \in 1..Len(input) :
       /\ i > DateSearch(input).end
       /\ MonthDayAt(input, i) # None
       /\ output # [year |-> 2024,
                    month |-> IntOf(SubSeq(input, MonthDayAt(input, i).m1, MonthDayAt(input, i).m2)),
                    day |-> IntOf(SubSeq(input, MonthDayAt(input, i).d1, MonthDayAt(input, i).d2))]

(***************************************************************************)
(* The normalizer applied to a bounded set of raw names.                   *)
(***************************************************************************)
MaxNameTokens == 3

\* the empty text, a group index, three blacklisted words, three Korean
\* names, two ID-style tokens and four tokens that are neither
NameTokens ==
  { <<>>, <<"1", "jo">>,
    <<"ha", "go", "raeb", "seu">>, <<"eu", "rat", "cha">>, <<"B", "G", "O">>,
    <<"hong", "gil", "dong">>, <<"kim", "min", "su">>, <<"kim", "min">>,
    <<"a", "b", "c", "d">>, <<"d", "_", "1", "x">>,
    <<"a">>, <<"a", "b">>, <<"hong">>, <<"a", "-", "c", "d">> }

NameJoiners == {" ", "/"}

RECURSIVE JoinedTokens(_)
JoinedTokens(n) ==
  IF n = 1 THEN NameTokens
  ELSE LET shorter == JoinedTokens(n - 1)
       IN shorter \cup {s \o <<j>> \o t : s \in shorter, j \in NameJoiners, t \in NameTokens}

InitNorm ==
  /\ Idle
  /\ input \in JoinedTokens(MaxNameTokens)
  /\ output = None
  /\ call = "ready"

CallNormalize ==
  /\ call = "ready"
  /\ output' = normalize_name_to_core(input)
  /\ call' = "normalize_name_to_core"
  /\ UNCHANGED <<input, MainVars>>

NextNorm == CallNormalize

SpecNorm == InitNorm /\ [][NextNorm]_vars

\* the tokens of a text: its longest runs of characters that are neither
\* whitespace nor a slash, from left to right
IsTokenChar(s, k) == k \in 1..Len(s) /\ s[k] \notin NameSep

TokenStarts(s) == {a \in 1..Len(s) : IsTokenChar(s, a) /\ ~IsTokenChar(s, a - 1)}

TokenAt(s, a) ==
  SubSeq(s, a, CHOOSE b \in a..Len(s) :
                 /\ \A k \in a..b : IsTokenChar(s, k)
                 /\ ~IsTokenChar(s, b + 1))

TokensOf(s) ==
  LET starts == TokenStarts(s)
  IN [k \in 1..Cardinality(starts) |->
        TokenAt(s, CHOOSE a \in starts : Cardinality({b \in starts : b < a}) = k - 1)]

Remaining(s) ==
  SelectSeq(TokensOf(s),
            LAMBDA p : /\ p \notin blacklist
                       /\ ~(/\ Len(p) >= 2 /\ p[Len(p)] = "jo"
                            /\ \A k \in 1..(Len(p) - 1) : p[k] \in Digit))

Korean23(p) == Len(p) \in {2, 3} /\ \A k \in 1..Len(p) : p[k] \in Hangul

IdLike(p) ==
  Len(p) >= 4 /\ \A k \in 1..Len(p) : p[k] \in Hangul \cup Latin \cup Digit \cup {"_"}

\* ps is in ascending order and holds the same items as qs
IsSortOf(ps, qs) ==
  /\ Len(ps) = Len(qs)
  /\ \A k \in 1..(Len(ps) - 1) : ~StrLess(ps[k + 1], ps[k])
  /\ \A x \in {qs[k] : k \in 1..Len(qs)} \cup {ps[k] : k \in 1..Len(ps)} :
       Cardinality({k \in 1..Len(ps) : ps[k] = x})
         = Cardinality({k \in 1..Len(qs) : qs[k] = x})

Normalized == call = "normalize_name_to_core"

\* C3: over the tokens left after the split and the two filters, a Korean
\* token of 2-3 characters wins: the result is the first of the longest
\* such tokens; else the last token of 4 or more ID characters; else the
\* tokens sorted and joined by single spaces, empty exactly when no token
\* is left.
C3_PriorityCascade ==
  Normalized =>
    \A R \in {Remaining(input)} :
      LET K == {k \in 1..Len(R) : Korean23(R[k])}
          I == {k \in 1..Len(R) : IdLike(R[k])}
      IN /\ K # {} =>
              \E k \in K : /\ output = R[k]
                           /\ \A j \in K : Len(R[j]) <= Len(R[k])
                           /\ \A j \in K : j < k => Len(R[j]) < Len(R[k])
         /\ K = {} /\ I # {} =>
              \E k \in I : output = R[k] /\ \A j \in I : j <= k
         /\ K = {} /\ I = {} =>
              /\ \E ps \in {Sorted(R)} : IsSortOf(ps, R) /\ output = Join(ps)
              /\ (output = <<>>) <=> (R = <<>>)

\* an ID-style token and two different Korean names of the same length are
\* left, and the first of the Korean names is the result
C3_Witness ==
  /\ Normalized
  /\ LET R == Remaining(input)
     IN \E i, j, k \in 1..Len(R) :
          /\ i < j /\ Korean23(R[i]) /\ Korean23(R[j])
          /\ Len(R[i]) = Len(R[j]) /\ R[i] # R[j]
          /\ IdLike(R[k])
          /\ output = R[i]

(***************************************************************************)
(* The extractor, then the normalizer, applied to a bounded set of lines.  *)
(***************************************************************************)
MaxLinePieces == 5

\* 12), 1<jo>, a space, a slash, two Korean names (one ends in <jo>), a
\* blacklisted Korean word
LinePieces ==
  { <<"1", "2", ")">>, <<"1", "jo">>, <<" ">>, <<"/">>,
    <<"hong", "gil", "dong">>, <<"kim", "jo">>, <<"eu", "rat", "cha">> }

InitExtract ==
  /\ Idle
  /\ input \in Concats(LinePieces, MaxLinePieces)
  /\ output = None
  /\ call = "ready"

\* the line is the whole text; each name returned is then normalized, as
\* the main block does with the names of a file
CallExtractNames ==
  /\ call = "ready"
  /\ LET r == extract_names_from_text(<<input>>)
     IN output' = [names |-> r.names,
                   normalized |-> [k \in 1..Len(r.names) |->
                                     normalize_name_to_core(r.names[k])],
                   warnings |-> r.warnings]
  /\ call' = "extract_names_from_text"
  /\ UNCHANGED <<input, MainVars>>

NextExtract == CallExtractNames

SpecExtract == InitExtract /\ [][NextExtract]_vars

Extracted == call = "extract_names_from_text"

\* the line is <digits>) <digits><jo> <name>: the position of the ")" and
\* of the <jo>, single spaces, and a Korean name of 2-3 characters
IsLabelledLine(s, a, b) ==
  /\ 1 < a /\ a + 2 < b /\ b + 1 < Len(s)
  /\ AllIn(s, 1, a - 1, Digit) /\ s[a] = ")" /\ s[a + 1] = " "
  /\ AllIn(s, a + 2, b - 1, Digit) /\ s[b] = "jo" /\ s[b + 1] = " "
  /\ Len(s) - (b + 1) \in {2, 3}
  /\ AllIn(s, b + 2, Len(s), Hangul)

LabelledLines(s) ==
  {ab \in (1..Len(s)) \X (1..Len(s)) : IsLabelledLine(s, ab[1], ab[2])}

\* C6 as stated: a line <digits>) <digits><jo> <name> yields the raw name
\* "<digits><jo> <name>", the group label still in it, and that raw name
\* normalizes to <name>.
C6_LabelKept ==
  Extracted =>
    \A ab \in LabelledLines(input) :
      /\ output.names = <<SubSeq(input, ab[1] + 2, Len(input))>>
      /\ output.normalized = <<SubSeq(input, ab[2] + 2, Len(input))>>

\* C6 amended: a line <digits>) <digits><jo> <name>, where <name> is 2-3
\* Korean characters and no blacklisted word, yields the raw name <name>:
\* the pattern has already skipped the group label.  That raw name
\* normalizes to <name>, and so does the text with the label in front.
C6_LabelSkipped ==
  Extracted =>
    \A ab \in LabelledLines(input) :
      LET name == SubSeq(input, ab[2] + 2, Len(input))
      IN name \notin blacklist =>
           /\ output.names = <<name>>
           /\ output.normalized = <<name>>
           /\ output.warnings = <<>>
           /\ normalize_name_to_core(SubSeq(input, ab[1] + 2, Len(input))) = name

\* such a line has been read, with a name that itself ends in <jo>
C6_Witness ==
  /\ Extracted
  /\ \E ab \in LabelledLines(input) :
       /\ input[Len(input)] = "jo"
       /\ output.names = <<SubSeq(input, ab[2] + 2, Len(input))>>

(***************************************************************************)
(* The run as a whole, stated over the uploaded files.                     *)
(***************************************************************************)
Done == pc = "done"

\* what one line gives, read on its own: the set of its canonical names and
\* the warning it raises, if any
LineFacts(l) ==
  CHOOSE f \in {[names |-> {normalize_name_to_core(R.names[h]) : h \in 1..Len(R.names)},
                 warnings |-> R.warnings] : R \in {extract_names_from_text(<<l>>)}} : TRUE

\* what one file gives: the date of its filename and, when it has one, the
\* facts of its lines; a file without a date is not read
FileFacts(f) ==
  CHOOSE g \in {[date |-> d,
                 lines |-> IF d = None THEN <<>>
                           ELSE [j \in 1..Len(f.content) |-> LineFacts(f.content[j])]] :
                  d \in {extract_date_from_filename(f.name)}} : TRUE

\* the facts of each upload of a set, as a table
RECURSIVE Tabulate(_)
Tabulate(S) ==
  IF S = {} THEN <<>>
  ELSE LET u == CHOOSE v \in S : TRUE IN (u :> FileFacts(u)) @@ Tabulate(S \ {u})

UploadFacts == Tabulate(Uploads)

\* the facts of the first n files
RECURSIVE Facts(_)
Facts(n) == IF n = 0 THEN <<>> ELSE Append(Facts(n - 1), UploadFacts[uploaded_files[n]])

AllFacts == Facts(Len(uploaded_files))

\* the files that take part among the first n: those with a date
Dated(F, n) == {k \in 1..n : F[k].date # None}

AllDated(F) == Dated(F, Len(F))

\* the canonical names of file k
CanonicalOf(F, k) == UNION {F[k].lines[j].names : j \in 1..Len(F[k].lines)}

\* the (name, date) pairs the first n files give
PairsOf(F, n) == UNION {{<<c, F[k].date>> : c \in CanonicalOf(F, k)} : k \in Dated(F, n)}

\* the (name, date) pairs marked 'O' in a record
MarkedPairs(p) ==
  UNION {{<<p[k].name, d>> : d \in {e \in DOMAIN p[k].dates : p[k].dates[e] = "O"}} :
           k \in 1..Len(p)}

DateColumns == SubSeq(df.columns, 2, Len(df.columns) - 1)

DateColumnSet == {DateColumns[k] : k \in 1..Len(DateColumns)}

\* C1: the date columns of the report are exactly the distinct dates parsed
\* from the filenames, one column each: also for a file that gives no
\* name, and none for a file without a date.
C1_DateColumns ==
  Done =>
    \A F \in {AllFacts} :
      /\ df.columns[1] = NameColumn
      /\ df.columns[Len(df.columns)] = TotalColumn
      /\ \A k \in AllDated(F) :
           \E c \in 1..Len(DateColumns) : Strptime(DateColumns[c]) = F[k].date
      /\ \A c \in 1..Len(DateColumns) :
           \E k \in AllDated(F) : Strptime(DateColumns[c]) = F[k].date
      /\ \A c, e \in 1..Len(DateColumns) : c # e => DateColumns[c] # DateColumns[e]
      /\ \A r \in 1..Len(df.rows) : DOMAIN df.rows[r].cells = DateColumnSet

\* two files share a date, a file with a date gives no name and nobody
\* attended its date, and a file has no date
C1_Witness ==
  /\ Done
  /\ \E F \in {AllFacts} :
       /\ \E i, j \in AllDated(F) : i # j /\ F[i].date = F[j].date
       /\ \E k \in AllDated(F) :
            /\ CanonicalOf(F, k) = {}
            /\ DateStr(F[k].date) \in DateColumnSet
            /\ \A pr \in MarkedPairs(participation) : pr[2] # F[k].date
       /\ AllDated(F) # 1..Len(uploaded_files)

\* C2: in every row the total is the number of 'O' cells among the date
\* columns, and every other date cell is 'X'.
C2_TotalCountsO ==
  Done =>
    \A r \in 1..Len(df.rows) :
      /\ \A c \in DateColumnSet : df.rows[r].cells[c] \in {"O", "X"}
      /\ df.rows[r].total = Cardinality({c \in DateColumnSet : df.rows[r].cells[c] = "O"})

\* a row with two 'O' cells and a row with an 'O' and an 'X' cell
C2_Witness ==
  /\ Done
  /\ \E r, q \in 1..Len(df.rows) :
       /\ df.rows[r].total = 2
       /\ df.rows[q].total = 1
       /\ \E c \in DateColumnSet : df.rows[q].cells[c] = "X"

\* the errors the first n files give, in order
RECURSIVE ErrorsOf(_, _)
ErrorsOf(F, n) ==
  IF n = 0 THEN <<>>
  ELSE ErrorsOf(F, n - 1) \o (IF F[n].date = None THEN <<uploaded_files[n].name>> ELSE <<>>)

\* the warnings the first j lines of a file give, in order
RECURSIVE LineWarnings(_, _)
LineWarnings(lines, j) ==
  IF j = 0 THEN <<>> ELSE LineWarnings(lines, j - 1) \o lines[j].warnings

\* the warnings the first n files give, in order
RECURSIVE WarningsOf(_, _)
WarningsOf(F, n) ==
  IF n = 0 THEN <<>>
  ELSE WarningsOf(F, n - 1) \o LineWarnings(F[n].lines, Len(F[n].lines))

\* the files the loop has dealt with: in the loop over the names of file idx
\* the file is read and its names are being marked
FilesRead == IF pc = "names" THEN idx ELSE idx - 1

\* C7: a file without a date adds one error and nothing else; a qualifying
\* line the pattern fails on adds one warning and no name; the lines and
\* files after them are still dealt with and the report is still built.
C7_FailuresIsolated ==
  /\ idx - 1 <= Len(uploaded_files)
  /\ pc = "names" => idx <= Len(uploaded_files) /\ raw_names # <<>>
  /\ Done => idx - 1 = Len(uploaded_files) /\ df # None
  /\ (idx - 1 <= Len(uploaded_files) /\ (pc = "names" => idx <= Len(uploaded_files))) =>
       \A F \in {Facts(FilesRead)} :
         /\ errors = ErrorsOf(F, idx - 1)
         /\ warnings = WarningsOf(F, FilesRead)
         /\ all_dates = {F[k].date : k \in Dated(F, FilesRead)}
         /\ PairsOf(F, idx - 1) \subseteq MarkedPairs(participation)
         /\ MarkedPairs(participation) \subseteq PairsOf(F, FilesRead)

\* a file without a date came before a file whose names were marked, and
\* in that file a failing line came before a line that gave a name
C7_Witness ==
  /\ Done
  /\ Len(errors) = 1
  /\ Len(warnings) = 1
  /\ \E F \in {AllFacts} :
       \E i, k \in 1..Len(F) :
         /\ i < k
         /\ F[i].date = None
         /\ F[k].date # None
         /\ \E a, b \in 1..Len(F[k].lines) :
              /\ a < b
              /\ F[k].lines[a].warnings # <<>>
              /\ \E n \in F[k].lines[b].names :
                   <<n, F[k].date>> \in MarkedPairs(participation)

\* C8: a (name, date) pair once marked stays marked at every later step,
\* and marking a pair that is already marked leaves the record as it was.
C8_RecordOnlyGrows ==
  [][ /\ MarkedPairs(participation) \subseteq MarkedPairs(participation')
      /\ (/\ pc = "names"
          /\ <<normalize_name_to_core(Head(raw_names)), date>>
               \in MarkedPairs(participation))
         => participation' = participation ]_vars

\* the next name to mark is already marked for the date of this file, by an
\* earlier file, and holds another date as well
C8_Witness ==
  /\ pc = "names"
  /\ raw_names # <<>>
  /\ <<normalize_name_to_core(Head(raw_names)), date>> \in PairsOf(Facts(idx - 1), idx - 1)
  /\ <<normalize_name_to_core(Head(raw_names)), date>> \in MarkedPairs(participation)
  /\ \E d \in all_dates :
       /\ d # date
       /\ <<normalize_name_to_core(Head(raw_names)), d>> \in MarkedPairs(participation)

\* the places, file and line, where canonical name n appears
SeenAt(F, n) ==
  UNION {{<<k, j>> : j \in {h \in 1..Len(F[k].lines) : n \in F[k].lines[h].names}} :
           k \in AllDated(F)}

Before(x, y) == x[1] < y[1] \/ (x[1] = y[1] /\ x[2] < y[2])

FirstSeen(F, n) == CHOOSE x \in SeenAt(F, n) : \A y \in SeenAt(F, n) \ {x} : Before(x, y)

\* C9: one row for each canonical name of the files with a date, the rows
\* in the order the names first appear, and a date cell is 'O' exactly when
\* the name comes from a file of that date, else 'X'.
C9_RowsAndCells ==
  Done =>
    \A F \in {AllFacts} :
      /\ {df.rows[r].name : r \in 1..Len(df.rows)}
           = UNION {CanonicalOf(F, k) : k \in AllDated(F)}
      /\ \A r, q \in 1..Len(df.rows) :
           r < q =>
             /\ df.rows[r].name # df.rows[q].name
             /\ Before(FirstSeen(F, df.rows[r].name), FirstSeen(F, df.rows[q].name))
      /\ \A r \in 1..Len(df.rows) :
           \A c \in DateColumnSet :
             df.rows[r].cells[c] =
               IF \E k \in AllDated(F) :
                    Strptime(c) = F[k].date /\ df.rows[r].name \in CanonicalOf(F, k)
               THEN "O" ELSE "X"

\* three rows that are not in sorted order, the last from a later file than
\* the first, and a row with cells of both kinds
C9_Witness ==
  /\ Done
  /\ Len(df.rows) = 3
  /\ \E r, q \in 1..3 : r < q /\ StrLess(df.rows[q].name, df.rows[r].name)
  /\ \E F \in {AllFacts} :
       FirstSeen(F, df.rows[1].name)[1] < FirstSeen(F, df.rows[3].name)[1]
  /\ \E r \in 1..3 : \E c, e \in DateColumnSet :
       df.rows[r].cells[c] = "O" /\ df.rows[r].cells[e] = "X"

\* C10: every row has an 'O' cell: its total is at least 1 and at most the
\* number of date columns; the record never holds a name without a date.
C10_NoEmptyRow ==
  /\ \A k \in 1..Len(participation) : DOMAIN participation[k].dates # {}
  /\ Done =>
       \A r \in 1..Len(df.rows) :
         /\ 1 <= df.rows[r].total
         /\ df.rows[r].total <= Len(DateColumns)
         /\ \E c \in DateColumnSet : df.rows[r].cells[c] = "O"

\* the row of the empty name has one 'O' cell among two date columns
C10_Witness ==
  /\ Done
  /\ Len(DateColumns) = 2
  /\ \E r \in 1..Len(df.rows) :
       /\ df.rows[r].name = <<>>
       /\ df.rows[r].total = 1

====
